---- MODULE Spec2Model ----
(***************************************************************************)
(* Model of modules/module_seg_vit.py (SegCLIP): the forward pass of       *)
(* SegViT and of its parts gumbel_softmax, CrossAttentionBlock,            *)
(* SemanticLearnerModule and ReconstructLayer.                             *)
(*                                                                         *)
(* Tensors carry their shape and, for 3-axis token sequences, one scalar   *)
(* per (row, column) position that stands for the channel vector; the      *)
(* channel count is kept in the shape.  Learned token-wise maps (linear,   *)
(* layer norm, 1x1 convolution, activation) keep the index structure and   *)
(* are applied as a fixed arithmetic map modulo ValMod.  Softmax values    *)
(* are exact fractions <<numerator, denominator>> with weights Base^z.     *)
(***************************************************************************)
EXTENDS Integers, Sequences, FiniteSets, TLC

VARIABLES cfg, build, training, semantic_center, center0, mid_states, last, gs, rc

vars == <<cfg, build, training, semantic_center, center0, mid_states, last, gs, rc>>

(* ------------------------------ bounds -------------------------------- *)
MaxB == 2
MaxLen == 4
MaxGroups == 2
ValMod == 3
Base == 2
GMaxB == 1
GMaxN == 2
GMaxLen == 2
GMaxScore == 1
RMaxB == 2
RMaxDim == 3

(* --------------------------- program constants ------------------------ *)
TotalDepth == 12
HeadWidth == 64
TauNum == 9
TauDen == 10
ClampMin == 1
DropProb == 0
CrossLayer == 2

None == "None"
\* None where a tensor or a record is expected
NoValue == [is_none |-> TRUE]
ShapeError == "shape_error"
NotImplemented == "not_implemented"
\* the outcome of a shape error where a shape is expected
NoShape == <<>>

(* ------------------------------ helpers ------------------------------- *)
RECURSIVE Gcd(_, _)
Gcd(ga, gb) == IF gb = 0 THEN ga ELSE Gcd(gb, ga % gb)

Rat(n, d) == LET g == Gcd(n, d) IN <<n \div g, d \div g>>
RatAdd(p, q) == Rat(p[1] * q[2] + q[1] * p[2], p[2] * q[2])
RatSub(p, q) == Rat(p[1] * q[2] - q[1] * p[2], p[2] * q[2])
RatLess(p, q) == p[1] * q[2] < q[1] * p[2]
RatOfInt(i) == <<i, 1>>

RECURSIVE SumSeq(_)
SumSeq(ss) == IF ss = <<>> THEN 0 ELSE ss[1] + SumSeq(Tail(ss))

RECURSIVE RatSumSeq(_)
RatSumSeq(rs) == IF rs = <<>> THEN <<0, 1>> ELSE RatAdd(rs[1], RatSumSeq(Tail(rs)))

RECURSIVE MaxSeq(_)
MaxSeq(ms) == IF Len(ms) = 1 THEN ms[1]
              ELSE LET rest == MaxSeq(Tail(ms)) IN IF ms[1] >= rest THEN ms[1] ELSE rest

LastArgMax(s) ==
    CHOOSE i \in 1..Len(s) :
        /\ \A j \in 1..Len(s) : ~RatLess(s[i], s[j])
        /\ \A j \in (i + 1)..Len(s) : RatLess(s[j], s[i])

\* Tensor.max(dim)[1]: the index of the first maximal value of the slice
FirstArgMax(s) ==
    CHOOSE i \in 1..Len(s) :
        /\ \A j \in 1..Len(s) : ~RatLess(s[i], s[j])
        /\ \A j \in 1..(i - 1) : RatLess(s[j], s[i])

\* Tensor.softmax over one slice of scores: exp(z_i) / sum_j exp(z_j)
SoftmaxSlice(z) ==
    LET w == [i \in 1..Len(z) |-> Base ^ z[i]]
        tot == SumSeq(w)
    IN [i \in 1..Len(z) |-> Rat(w[i], tot)]

\* a rank-3 tensor t[b][n][l] laid out as nested tuples
Contiguous3(t) ==
    [b \in 1..Len(t) |-> [n \in 1..Len(t[b]) |-> t[b][n] \o <<>>] \o <<>>] \o <<>>

(* a rank-3 tensor t[b][n][l]; its slice along dim 1 (token axis) at (b, l)
   and along the last dim at (b, n) *)
SliceAlong(t, dim, b, i) ==
    IF dim = 1 THEN [n \in 1..Len(t[b]) |-> t[b][n][i]]
    ELSE t[b][i]

Softmax3(t, dim) ==
    IF dim = 1
    THEN LET sm == [b \in 1..Len(t) |-> [l \in 1..Len(t[b][1]) |->
                       SoftmaxSlice(SliceAlong(t, 1, b, l)) \o <<>>] \o <<>>] \o <<>>
         IN Contiguous3([b \in 1..Len(t) |-> [n \in 1..Len(t[b]) |->
                [l \in 1..Len(t[b][n]) |-> sm[b][l][n]]]])
    ELSE Contiguous3([b \in 1..Len(t) |-> [n \in 1..Len(t[b]) |->
             SoftmaxSlice(SliceAlong(t, 2, b, n))]])

\* zeros_like(logits).scatter_(dim, index, 1.0)
OneHot3(y, dim) ==
    IF dim = 1
    THEN LET index == [b \in 1..Len(y) |-> [l \in 1..Len(y[b][1]) |->
                          FirstArgMax(SliceAlong(y, 1, b, l))] \o <<>>] \o <<>>
         IN Contiguous3([b \in 1..Len(y) |-> [n \in 1..Len(y[b]) |->
                [l \in 1..Len(y[b][n]) |-> IF index[b][l] = n THEN 1 ELSE 0]]])
    ELSE LET index == [b \in 1..Len(y) |-> [n \in 1..Len(y[b]) |->
                          FirstArgMax(SliceAlong(y, 2, b, n))] \o <<>>] \o <<>>
         IN Contiguous3([b \in 1..Len(y) |-> [n \in 1..Len(y[b]) |->
                [l \in 1..Len(y[b][n]) |-> IF index[b][n] = l THEN 1 ELSE 0]]])

\* (logits + gumbels) / tau, in integer fixed point
ScaleByTau(z, tauNum, tauDen) == (z * tauDen) \div tauNum

\* y_hard - y_soft.detach() + y_soft
StraightThrough(y_hard, y_soft) ==
    Contiguous3([b \in 1..Len(y_soft) |-> [n \in 1..Len(y_soft[b]) |->
        [l \in 1..Len(y_soft[b][n]) |->
            RatAdd(RatSub(RatOfInt(y_hard[b][n][l]), y_soft[b][n][l]), y_soft[b][n][l])]]])

\* the Gumbel branch: ((logits + gumbels) / tau).softmax(dim)
NoisySoftmax(logits, tauNum, tauDen, dim, gumbels) ==
    Softmax3(Contiguous3([b \in 1..Len(logits) |-> [n \in 1..Len(logits[b]) |->
                [l \in 1..Len(logits[b][n]) |->
                    ScaleByTau(logits[b][n][l] + gumbels[b][n][l], tauNum, tauDen)]]]), dim)

\* the second half of gumbel_softmax: straight through if hard
HardOrSoft(y_soft, hard, dim) ==
    IF hard THEN StraightThrough(OneHot3(y_soft, dim), y_soft) ELSE y_soft

gumbel_softmax_noisy(logits, tauNum, tauDen, hard, dim, is_training, gumbels) ==
    HardOrSoft(NoisySoftmax(logits, tauNum, tauDen, dim, gumbels), hard, dim)

gumbel_softmax(logits, tauNum, tauDen, hard, dim, is_training, gumbels) ==
    HardOrSoft(IF is_training THEN NoisySoftmax(logits, tauNum, tauDen, dim, gumbels)
               ELSE Softmax3(logits, dim),
               hard, dim)

(* ------------------- token sequences with a layout -------------------- *)
\* a rank-3 token sequence: shape <<d0, d1, c>>, layout "NLD" (batch-major)
\* or "LND" (length-major), data[i][j] for the first two axes
\* the rows of a tensor laid out as tuples (Tensor.contiguous())
Contiguous(data) == [i \in 1..Len(data) |-> data[i] \o <<>>] \o <<>>

Tensor(layout, shape, data) ==
    [layout |-> layout, shape |-> shape, data |-> Contiguous(data)]

Header(t) == [layout |-> t.layout, shape |-> t.shape]

FlipLayout(l) == IF l = "NLD" THEN "LND" ELSE "NLD"

\* Tensor.permute(1, 0, 2)
Permute102(t) ==
    Tensor(FlipLayout(t.layout), <<t.shape[2], t.shape[1], t.shape[3]>>,
           [j \in 1..t.shape[2] |-> [i \in 1..t.shape[1] |-> t.data[i][j]]])

\* elementwise a + b on equal shapes
AddT(a, b) ==
    Tensor(a.layout, a.shape,
           [i \in 1..a.shape[1] |-> [j \in 1..a.shape[2] |->
               (a.data[i][j] + b.data[i][j]) % ValMod]])

\* a learned map applied to every token separately (nn.Linear / QuickGELU stacks)
TokenFn(v) == (v + 1) % ValMod

MapT(t) ==
    Tensor(t.layout, t.shape,
           [i \in 1..t.shape[1] |-> [j \in 1..t.shape[2] |-> TokenFn(t.data[i][j])]])

\* layer normalisation acts on the channel axis of every token: positions kept
LayerNormT(t) == t

\* torch.cat([a, b], dim=1)
Cat1(a, b) ==
    Tensor(a.layout, <<a.shape[1], a.shape[2] + b.shape[2], a.shape[3]>>,
           [i \in 1..a.shape[1] |-> a.data[i] \o b.data[i]])

(* ---------------------- nn.MultiheadAttention ------------------------- *)
\* row-major flattening of the first two axes
FlatAt(t, k) == t.data[((k - 1) \div t.shape[2]) + 1][((k - 1) % t.shape[2]) + 1]

\* k.view(-1, bsz * num_heads, head_dim): the key re-read with bsz columns
ViewAs(t, bsz) ==
    Tensor(t.layout, <<(t.shape[1] * t.shape[2]) \div bsz, bsz, t.shape[3]>>,
           [s \in 1..((t.shape[1] * t.shape[2]) \div bsz) |->
               [n \in 1..bsz |-> FlatAt(t, (s - 1) * bsz + n)]])

\* attention output for a query (L, N, E) and key/value (S, N, E), both read
\* as length-major: out[l][n] mixes the values of column n only
AttendT(query, value) ==
    LET col == [n \in 1..value.shape[2] |->
                   SumSeq([s \in 1..value.shape[1] |-> value.data[s][n]])] \o <<>>
    IN Tensor(query.layout, query.shape,
           [l \in 1..query.shape[1] |-> [n \in 1..query.shape[2] |->
               ((query.data[l][n] + 1) * col[n]) % ValMod]])

\* the primitive is constructed without batch_first: axis 1 of query and of
\* key is the batch axis.  A key whose axis 1 differs from the query's is
\* outside its contract: a build that checks the key's shape raises, a build
\* that views the key with -1 re-reads its memory with the query's batch size.
MultiheadAttention(query, key, value, bld) ==
    IF key.shape[2] = query.shape[2]
    THEN [status |-> "ok", out |-> AttendT(query, value)]
    ELSE IF bld = "strict" \/ (key.shape[1] * key.shape[2]) % query.shape[2] # 0
         THEN [status |-> ShapeError, out |-> NoValue]
         ELSE [status |-> "ok", out |-> AttendT(query, ViewAs(value, query.shape[2]))]

(* ------------------------------ drop_path ----------------------------- *)
\* keep[b] in {0, 1} is the binarised random tensor, one entry per sample
drop_path(x, drop_prob, is_training, keep) ==
    IF drop_prob = 0 \/ ~is_training THEN x
    ELSE Tensor(x.layout, x.shape,
                [i \in 1..x.shape[1] |-> [j \in 1..x.shape[2] |->
                    (x.data[i][j] * keep[i]) % ValMod]])

DropPathSamples(drop_prob, is_training) ==
    IF drop_prob = 0 \/ ~is_training THEN {} ELSE {"drop_path"}

(* ------------------------ ResidualAttentionBlock ---------------------- *)
\* x + drop_path(attention(ln_1(x))), x length-major, attn_mask = None
AttentionResidual(x, is_training, keep, bld) ==
    AddT(x, drop_path(
        MultiheadAttention(LayerNormT(x), LayerNormT(x), LayerNormT(x), bld).out,
        DropProb, is_training, keep))

\* x + drop_path(mlp(ln_2(x)))
MlpResidual(x, is_training, keep) ==
    AddT(x, drop_path(MapT(LayerNormT(x)), DropProb, is_training, keep))

\* forward(x) with attn_mask = None; x is batch-major
ResidualAttentionBlock(x, is_training, keep, bld) ==
    Permute102(MlpResidual(AttentionResidual(Permute102(x), is_training, keep, bld),
                           is_training, keep))

\* nn.Sequential of depth blocks (nn.Identity when there is none); each
\* block's output is computed (its shape read) before the next block runs
RECURSIVE Blocks(_, _, _, _, _)
Blocks(hidden, depth, train_mode, keep_mask, lib) ==
    IF depth <= 0 \/ hidden.shape = NoShape THEN hidden
    ELSE Blocks(ResidualAttentionBlock(hidden, train_mode, keep_mask, lib),
                depth - 1, train_mode, keep_mask, lib)

(* ------------------------- CrossAttentionBlock ------------------------ *)
\* q + mlp(ln_2(q))
MlpAdd(q) == AddT(q, MapT(LayerNormT(q)))

\* q + attn(...)[0], q + mlp(ln_2(q)) and the permute back, given what the
\* attention primitive returned
CrossResidual(q1, k, r) ==
    IF r.status # "ok"
    THEN [status |-> r.status, out |-> NoValue,
          call |-> [query |-> Header(q1), key |-> Header(k), result |-> r.status]]
    ELSE [status |-> "ok",
          out |-> Permute102(MlpAdd(AddT(q1, r.out))),
          call |-> [query |-> Header(q1), key |-> Header(k), result |-> r.status]]

\* the attention call: q1 is the permuted query, k is passed on as given
CrossAttend(q1, k, bld) ==
    CrossResidual(q1, k,
        MultiheadAttention(LayerNormT(q1), LayerNormT(k), LayerNormT(k), bld))

\* forward(q, k): q is permuted to length-major, k is not
CrossAttentionBlock(q, k, bld) == CrossAttend(Permute102(q), k, bld)

(* ------------------------ SemanticLearnerModule ----------------------- *)
\* semantic_center.unsqueeze(0).repeat(bs, 1, 1): a new tensor [bs, n_token, c]
RepeatCenter(center, bs, c) ==
    Tensor("NLD", <<bs, Len(center), c>>, [b \in 1..bs |-> center])

\* the cross_att rounds: kv_ = cat([q_feat, org_inputs], dim=1);
\* q_feat = attn_fct_(q_feat, kv_)
RECURSIVE CrossRounds(_, _, _, _, _)
RECURSIVE CrossRound(_, _, _, _, _)
CrossRound(res, patches, rounds, lib, made) ==
    IF res.status # "ok"
    THEN [status |-> res.status, q_feat |-> NoValue, calls |-> Append(made, res.call)]
    ELSE CrossRounds(res.out, patches, rounds - 1, lib, Append(made, res.call))

CrossRounds(tokens, patches, rounds, lib, made) ==
    IF rounds = 0 THEN [status |-> "ok", q_feat |-> tokens, calls |-> made]
    ELSE CrossRound(CrossAttentionBlock(tokens, Cat1(tokens, patches), lib),
                    patches, rounds, lib, made)

\* einsum("...si,...di->...sd", q_feat, k_feat): [bs, n_token, h*w]
Scores(q_feat, k_feat) ==
    Contiguous3([b \in 1..q_feat.shape[1] |-> [n \in 1..q_feat.shape[2] |->
        [l \in 1..k_feat.shape[2] |-> (q_feat.data[b][n] * k_feat.data[b][l]) % ValMod]]])

\* torch.sum(hard_attn, dim=-1)
SumLast(hard_attn) ==
    Contiguous([b \in 1..Len(hard_attn) |-> [n \in 1..Len(hard_attn[b]) |->
        RatSumSeq(hard_attn[b][n])]])

clamp_min_eps(r, min) == IF RatLess(r, <<min, 1000>>) THEN <<min, 1000>> ELSE r

\* torch.clamp_min(t, min)
clamp_min(r, min) == IF RatLess(r, RatOfInt(min)) THEN RatOfInt(min) ELSE r

\* torch.clamp_min(torch.sum(hard_attn, dim=-1), min=1.0)
ClampedCounts(cnt) ==
    Contiguous([b \in 1..Len(cnt) |-> [n \in 1..Len(cnt[b]) |->
        clamp_min(cnt[b][n], ClampMin)]])

Divisor(hard_attn) == ClampedCounts(SumLast(hard_attn))

\* a fraction brought back to the scalar value domain
ToVal(r) == (r[1] \div r[2]) % ValMod

\* the quotient of an aggregated value by its divisor
Quotient(tot, div) == ToVal(Rat(tot[1] * div[2], tot[2] * div[1]))

\* einsum("...si,...id->...sd", hard_attn, v_feat) / divisor
Aggregate(hard_attn, v_feat, divisor) ==
    [b \in 1..Len(hard_attn) |-> [n \in 1..Len(hard_attn[b]) |->
        Quotient(RatSumSeq([l \in 1..Len(hard_attn[b][n]) |->
                     Rat(hard_attn[b][n][l][1] * v_feat.data[b][l], hard_attn[b][n][l][2])]),
                 divisor[b][n])]]

\* outputs = proj_o(q_feat + outputs / divisor) and the returned tuple
Attended(q_feat, v_feat, attn, hard_attn, soft_attn, divisor, calls, is_training) ==
    [status |-> "ok", calls |-> calls,
     sampled |-> IF is_training THEN {"gumbel"} ELSE {},
     outputs |-> MapT(AddT(q_feat,
                     Tensor("NLD", q_feat.shape, Aggregate(hard_attn, v_feat, divisor)))),
     attn |-> attn, hard_attn |-> hard_attn,
     soft_attn |-> soft_attn, q_feat |-> q_feat, divisor |-> divisor]

\* hard_attn -> its divisor
Routed(q_feat, v_feat, attn, hard_attn, calls, is_training) ==
    Attended(q_feat, v_feat, attn, hard_attn, Softmax3(attn, 1), Divisor(hard_attn),
             calls, is_training)

\* attn -> hard_attn = gumbel_softmax(attn, tau=0.9, hard=True, dim=1, ...)
Scored(q_feat, v_feat, attn, calls, is_training, gumbels) ==
    Routed(q_feat, v_feat, attn,
           gumbel_softmax(attn, TauNum, TauDen, TRUE, 1, is_training, gumbels),
           calls, is_training)

\* the part of forward after the cross_att rounds
Grouping(in_feature, cr, is_training, gumbels) ==
    IF cr.status # "ok"
    THEN [status |-> cr.status, calls |-> cr.calls, sampled |-> {}]
    ELSE Scored(LayerNormT(cr.q_feat), MapT(in_feature),
                Scores(LayerNormT(cr.q_feat), LayerNormT(MapT(in_feature))),
                cr.calls, is_training, gumbels)

\* forward(inputs): inputs is batch-major (B, L, H)
SemanticLearnerModule(inputs, center, is_training, gumbels, bld) ==
    Grouping(LayerNormT(inputs),
             CrossRounds(RepeatCenter(center, inputs.shape[1], inputs.shape[3]),
                         inputs, CrossLayer, bld, <<>>),
             is_training, gumbels)

(* --------------------------- ReconstructLayer ------------------------- *)
Broadcastable(a, b) == a = b \/ a = 1 \/ b = 1

BroadcastDim(a, b) == IF a = 1 THEN b ELSE a

ReconstructShape_nopermute(in_channels, out_channels, inputsShape, attnShape) ==
    IF attnShape[3] # in_channels /\ attnShape[2] # in_channels THEN NoShape
    ELSE IF ~Broadcastable(inputsShape[1], attnShape[1]) THEN NoShape
    ELSE <<BroadcastDim(inputsShape[1], attnShape[1]), attnShape[2], inputsShape[3]>>

\* the shape computed by forward(inputs, attn) for a layer built with
\* in_channels (out_channels is stored and never read):
\*   attn.permute(0, 2, 1); rec_proj_a = Linear(in_channels, in_channels);
\*   einsum("...dh,...md->...mh", inputs, attn)
ReconstructShape(in_channels, out_channels, inputsShape, attnShape) ==
    LET permuted == <<attnShape[1], attnShape[3], attnShape[2]>>
    IN IF permuted[3] # in_channels THEN NoShape
       ELSE IF ~Broadcastable(inputsShape[2], permuted[3]) THEN NoShape
       ELSE IF ~Broadcastable(inputsShape[1], permuted[1]) THEN NoShape
       ELSE <<BroadcastDim(inputsShape[1], permuted[1]), permuted[2], inputsShape[3]>>

ReconstructLayer_skipped(in_channels, out_channels, inputs, attn) ==
    [status |-> "ok", out |-> inputs]

\* forward(inputs, attn) on values: inputs (B, L, H), attn (B, L, M) -> (B, M, H)
ReconstructLayer(in_channels, out_channels, inputs, attn) ==
    LET attnShape == <<Len(attn), Len(attn[1]), Len(attn[1][1])>>
        shape == ReconstructShape(in_channels, out_channels, inputs.shape, attnShape)
    IN IF shape = NoShape THEN [status |-> ShapeError, out |-> NoValue]
       ELSE [status |-> "ok",
             out |-> MapT(Tensor("NLD", shape,
                 [b \in 1..shape[1] |-> [m \in 1..shape[2] |->
                     ToVal(RatSumSeq([d \in 1..inputs.shape[2] |->
                         Rat(attn[b][d][m][1] * inputs.data[b][d], attn[b][d][m][2])]))]]))]

(* -------------------------------- SegViT ------------------------------ *)
\* __init__: patch_len and the depths of the two stages
PatchLen(input_resolution, patch_size) == input_resolution \div patch_size

MakeConfig(dim_in, patch_size, input_resolution, first_stage_layer, group_num) ==
    [dim_in |-> dim_in, patch_size |-> patch_size, input_resolution |-> input_resolution,
     first_stage_layer |-> first_stage_layer, group_num |-> group_num,
     patch_len |-> PatchLen(input_resolution, patch_size),
     depths |-> <<first_stage_layer, TotalDepth - first_stage_layer>>,
     num_heads |-> dim_in \div HeadWidth]

IsMaskedLen_square(patch_len, len) == patch_len ^ 2 # len

\* the test of line 423: TRUE when the MAE (masked) branch is taken
IsMaskedLen(patch_len, len) == patch_len ^ 2 # len /\ 4 * (patch_len ^ 2) # len

MaskRejected_ignored(attn_mask) == FALSE

\* the guard of line 416
MaskRejected(attn_mask) == attn_mask # None

\* lines 410-412: the record every call starts from
NewMidStates(old) == [hidden |-> NoValue, attns |-> <<>>]

SplitCls_swapped(x) ==
    [cls |-> Tensor(x.layout, <<x.shape[1], 1, x.shape[3]>>,
                    [b \in 1..x.shape[1] |-> <<x.data[b][x.shape[2]]>>]),
     rest |-> Tensor(x.layout, <<x.shape[1], x.shape[2] - 1, x.shape[3]>>,
                    [b \in 1..x.shape[1] |-> SubSeq(x.data[b], 1, x.shape[2] - 1)])]

\* torch.split(x, [1, x.size(1)-1], dim=1)
SplitCls(x) ==
    [cls |-> Tensor(x.layout, <<x.shape[1], 1, x.shape[3]>>,
                    [b \in 1..x.shape[1] |-> <<x.data[b][1]>>]),
     rest |-> Tensor(x.layout, <<x.shape[1], x.shape[2] - 1, x.shape[3]>>,
                    [b \in 1..x.shape[1] |-> Tail(x.data[b])])]

\* torch.mean(x_, dim=1, keepdim=True)
MeanCls(x_) ==
    Tensor(x_.layout, <<x_.shape[1], 1, x_.shape[3]>>,
           [b \in 1..x_.shape[1] |-> <<SumSeq(x_.data[b]) \div x_.shape[2]>>])

\* torch.max(x_, dim=1, keepdim=True)[0]
MaxCls(x_) ==
    Tensor(x_.layout, <<x_.shape[1], 1, x_.shape[3]>>,
           [b \in 1..x_.shape[1] |-> <<MaxSeq(x_.data[b])>>])

AttnShape(a) == <<Len(a), Len(a[1]), Len(a[1][1])>>

Raised(status, branch, stages, mid, calls, sampled) ==
    [status |-> status, branch |-> branch, stages |-> stages, out |-> NoValue,
     mid |-> NoValue, mid_local |-> mid, calls |-> calls, sampled |-> sampled,
     sem |-> NoValue]

\* lines 431-433 and 450-452: hidden, the mean summary token, the result
MaskedReturn(mid0, sl, dp, x2) ==
    [status |-> "ok", branch |-> "MASKED",
     stages |-> <<"split", "layers0", "semantic_layer2", "reconstruct_layer2", "layers_mae2">>,
     out |-> Permute102(Cat1(MeanCls(x2), x2)),
     mid |-> [mid0 EXCEPT !.hidden = x2], mid_local |-> [mid0 EXCEPT !.hidden = x2],
     calls |-> sl.calls, sampled |-> dp \cup sl.sampled, sem |-> sl]

\* line 428: layers_mae2 on what reconstruct_layer2 returned
MaskedReconstructed(c, is_training, bld, keep, mid0, sl, dp, rl) ==
    IF rl.status # "ok"
    THEN Raised(rl.status, "MASKED",
                <<"split", "layers0", "semantic_layer2", "reconstruct_layer2">>,
                mid0, sl.calls, dp \cup sl.sampled)
    ELSE MaskedReturn(mid0, sl, dp, Blocks(rl.out, c.depths[2], is_training, keep, bld))

\* line 427: reconstruct_layer2 on what semantic_layer2 returned
MaskedPath(c, is_training, bld, keep, mid0, sl, dp) ==
    IF sl.status # "ok"
    THEN Raised(sl.status, "MASKED", <<"split", "layers0", "semantic_layer2">>,
                mid0, sl.calls, dp \cup sl.sampled)
    ELSE MaskedReconstructed(c, is_training, bld, keep, mid0, sl, dp,
             ReconstructLayer(c.group_num, c.dim_in, sl.outputs, sl.hard_attn))

\* lines 441-452: the max summary token, the attention pair, the result
FullReturn(mid1, sl, dp, x2) ==
    [status |-> "ok", branch |-> "FULL",
     stages |-> <<"split", "layers0", "semantic_layer2", "layers2">>,
     out |-> Permute102(Cat1(MaxCls(x2), x2)),
     mid |-> [mid1 EXCEPT !.attns = Append(@,
                 [soft_attn |-> sl.soft_attn, hard_attn |-> sl.hard_attn])],
     mid_local |-> [mid1 EXCEPT !.attns = Append(@,
                 [soft_attn |-> sl.soft_attn, hard_attn |-> sl.hard_attn])],
     calls |-> sl.calls, sampled |-> dp \cup sl.sampled, sem |-> sl]

\* line 439: layers2 on what semantic_layer2 returned
FullPath(c, is_training, bld, keep, mid1, sl, dp) ==
    IF sl.status # "ok"
    THEN Raised(sl.status, "FULL", <<"split", "layers0", "semantic_layer2">>,
                mid1, sl.calls, dp \cup sl.sampled)
    ELSE FullReturn(mid1, sl, dp, Blocks(sl.outputs, c.depths[2], is_training, keep, bld))

\* lines 423-448: the branch, x0 being what layers0 returned
Branch(c, center, is_training, bld, gumbels, keep, mid0, x0) ==
    IF IsMaskedLen(c.patch_len, x0.shape[2])
    THEN MaskedPath(c, is_training, bld, keep, mid0,
                    SemanticLearnerModule(x0, center, is_training, gumbels, bld),
                    DropPathSamples(DropProb, is_training))
    ELSE FullPath(c, is_training, bld, keep, [mid0 EXCEPT !.hidden = x0],
                  SemanticLearnerModule(x0, center, is_training, gumbels, bld),
                  DropPathSamples(DropProb, is_training))

\* forward(x, attn_mask): x is length-major (1 + Len, B, C)
SegViTForward(c, center, is_training, bld, x, attn_mask, gumbels, keep, old_mid) ==
    IF MaskRejected(attn_mask)
    THEN Raised(NotImplemented, None, <<>>, NewMidStates(old_mid), <<>>, {})
    ELSE Branch(c, center, is_training, bld, gumbels, keep, NewMidStates(old_mid),
                Blocks(SplitCls(Permute102(x)).rest, c.depths[1], is_training, keep, bld))

CenterAfterForward_inplace(center, res) ==
    IF res.sem # NoValue THEN res.sem.q_feat.data[1] ELSE center

\* forward reads semantic_center through .to(...).unsqueeze(0).repeat(...),
\* a copy: the parameter keeps its value
CenterAfterForward(center, res) == center

(* ------------------------------ state machine ------------------------- *)
Resolutions == {2, 4}
PatchSizes == {2}
Dims == {64}
FirstStageLayers == {10}
Builds == {"strict", "lenient"}

Configs ==
    {MakeConfig(d, ps, ir, fsl, g) :
        d \in Dims, ps \in PatchSizes, ir \in Resolutions,
        fsl \in FirstStageLayers, g \in 1..MaxGroups}

\* the value semantic_center holds after construction
InitCenter(n) == [t \in 1..n |-> (t % 2) + 1]

\* the patch values of an input: patterns over (batch, position)
PatchVal(p, b, l) == IF p = 0 THEN (b + l) % 2 ELSE (l \div 2) % 2

\* x in length-major layout: row 1 is the summary token
MakeInput(bsz, len, ch, p, clsval) ==
    Tensor("LND", <<1 + len, bsz, ch>>,
           [l \in 1..(1 + len) |-> [b \in 1..bsz |->
               IF l = 1 THEN clsval ELSE PatchVal(p, b, l - 1)]])

ZeroNoise(bsz, n, len) ==
    Contiguous3([b \in 1..bsz |-> [t \in 1..n |-> [l \in 1..len |-> 0]]])

\* Gumbel samples: none (id 0), or the last token raised at every position
Noise(id, bsz, n, len) ==
    Contiguous3([b \in 1..bsz |-> [t \in 1..n |-> [l \in 1..len |->
        IF id = 1 /\ t = n THEN 2 ELSE 0]]])

\* the calls made: patch pattern, summary value, mask, noise id
CallKinds ==
    {<<0, 0, None, 0>>, <<1, 0, None, 0>>, <<0, 1, None, 0>>,
     <<0, 0, None, 1>>, <<0, 0, "mask", 0>>}

NoCall == [called |-> FALSE]
Idle == [done |-> FALSE]

Init ==
    /\ cfg \in Configs
    /\ build \in Builds
    /\ training = TRUE
    /\ semantic_center = InitCenter(cfg.group_num)
    /\ center0 = semantic_center
    /\ mid_states = NoValue
    /\ last = NoCall
    /\ gs = Idle
    /\ rc = Idle

\* model.eval() / model.train()
SetTraining(mode) ==
    /\ training # mode
    /\ training' = mode
    /\ UNCHANGED <<cfg, build, semantic_center, center0, mid_states, last, gs, rc>>

\* forward is a function of the configuration, the parameters, the mode and
\* the input: its results on the parameters of construction, computed once
ForwardResults ==
    [c \in Configs, bld \in Builds, tr \in BOOLEAN, bsz \in 1..MaxB, len \in 1..MaxLen,
     kind \in CallKinds |->
        SegViTForward(c, InitCenter(c.group_num), tr, bld,
                      MakeInput(bsz, len, c.dim_in, kind[1], kind[2]), kind[3],
                      Noise(kind[4], bsz, c.group_num, len), [b \in 1..bsz |-> 1],
                      NoValue)] @@ <<>>

\* o, mid_states = model(x, attn_mask)
Call(bsz, len, kind) ==
    IF semantic_center = InitCenter(cfg.group_num)
    THEN ForwardResults[<<cfg, build, training, bsz, len, kind>>]
    ELSE SegViTForward(cfg, semantic_center, training, build,
                       MakeInput(bsz, len, cfg.dim_in, kind[1], kind[2]), kind[3],
                       Noise(kind[4], bsz, cfg.group_num, len), [b \in 1..bsz |-> 1],
                       mid_states)

Forward(bsz, len, kind) ==
    LET x == MakeInput(bsz, len, cfg.dim_in, kind[1], kind[2])
        gumbels == Noise(kind[4], bsz, cfg.group_num, len)
        res == Call(bsz, len, kind)
    IN /\ last' = [called |-> TRUE, x |-> x, attn_mask |-> kind[3],
                   training |-> training, gumbels |-> gumbels, res |-> res]
       /\ mid_states' = res.mid_local
       /\ semantic_center' = CenterAfterForward(semantic_center, res)
       /\ UNCHANGED <<cfg, build, training, center0, gs, rc>>

Next ==
    \/ \E mode \in BOOLEAN : SetTraining(mode)
    \/ \E bsz \in 1..MaxB, len \in 1..MaxLen, kind \in CallKinds :
          Forward(bsz, len, kind)

Spec == Init /\ [][Next]_vars

(* ---------------- gumbel_softmax on arbitrary score tensors ----------- *)
\* score tensors (B, N, Len): every pair of score columns over the N tokens,
\* laid out alternately over the (batch, position) pairs
ScoreTensors ==
    UNION {{[b \in 1..bsz |-> [t \in 1..n |-> [l \in 1..len |->
                IF (b + l) % 2 = 0 THEN even[t] ELSE odd[t]]]] :
              even \in [1..n -> 0..GMaxScore], odd \in [1..n -> 0..GMaxScore]} :
           bsz \in 1..GMaxB, n \in 1..GMaxN, len \in 1..GMaxLen}

FixedModel ==
    /\ cfg = MakeConfig(64, 2, 2, 10, 1)
    /\ build = "strict"
    /\ training = TRUE
    /\ semantic_center = InitCenter(1)
    /\ center0 = semantic_center
    /\ mid_states = NoValue
    /\ last = NoCall

InitGumbel ==
    /\ FixedModel
    /\ rc = Idle
    /\ \E t \in ScoreTensors, tr \in BOOLEAN, h \in BOOLEAN :
          gs = [done |-> FALSE, logits |-> Contiguous3(t), is_training |-> tr, hard |-> h]

\* the call of line 305: tau = 0.9, dim = 1
GumbelCall(id) ==
    /\ ~gs.done
    /\ LET g == Noise(id, Len(gs.logits), Len(gs.logits[1]), Len(gs.logits[1][1]))
       IN gs' = [done |-> TRUE, logits |-> gs.logits, is_training |-> gs.is_training,
                 hard |-> gs.hard, gumbels |-> g,
                 ret |-> gumbel_softmax(gs.logits, TauNum, TauDen, gs.hard, 1,
                                        gs.is_training, g)]
    /\ UNCHANGED <<cfg, build, training, semantic_center, center0, mid_states, last, rc>>

NextGumbel == \E id \in 0..1 : GumbelCall(id)

SpecGumbel == InitGumbel /\ [][NextGumbel]_vars

(* ------------- ReconstructLayer.forward on arbitrary shapes ----------- *)
InitReconstruct ==
    /\ FixedModel
    /\ gs = Idle
    /\ \E ic \in 1..RMaxDim, oc \in 1..RMaxDim, bsz \in 1..RMaxB, d1 \in 1..RMaxDim,
          ch \in Dims, a1 \in 1..RMaxDim, a2 \in 1..RMaxDim :
          rc = [done |-> FALSE, in_channels |-> ic, out_channels |-> oc,
                inputs |-> <<bsz, d1, ch>>, attn |-> <<bsz, a1, a2>>]

ReconstructCall ==
    /\ ~rc.done
    /\ rc' = [rc EXCEPT !.done = TRUE] @@
             [ret |-> ReconstructShape(rc.in_channels, rc.out_channels, rc.inputs, rc.attn)]
    /\ UNCHANGED <<cfg, build, training, semantic_center, center0, mid_states, last, gs>>

NextReconstruct == ReconstructCall

SpecReconstruct == InitReconstruct /\ [][NextReconstruct]_vars

(* ============================ properties ============================== *)
PatchLenOf(c) == c.input_resolution \div c.patch_size
CallLen == last.x.shape[1] - 1
CallBatch == last.x.shape[2]
CallChannels == last.x.shape[3]
Unmasked == last.called /\ last.attn_mask = None
FullLen == CallLen = PatchLenOf(cfg) ^ 2 \/ CallLen = 4 * PatchLenOf(cfg) ^ 2

\* C1: without an attention mask, forward takes the FULL path exactly when
\* the patch-sequence length is patch_len^2 or 4 * patch_len^2, and the
\* MASKED path for every other length.
C1_BranchSelection ==
    Unmasked =>
        /\ last.res.branch \in {"FULL", "MASKED"}
        /\ (last.res.branch = "FULL") <=> FullLen

C1_Witness ==
    /\ Unmasked
    /\ last.res.branch = "FULL"
    /\ CallLen = 4 * PatchLenOf(cfg) ^ 2

\* C2: on the FULL path forward returns a length-major sequence of shape
\* (1 + group_num, B, C) and a mid-state whose attention list holds exactly
\* one pair, hard_attn and soft_attn of shape (B, group_num, Len), after any
\* sequence of earlier calls.
C2_FullPathResult ==
    (Unmasked /\ FullLen) =>
        /\ last.res.status = "ok"
        /\ last.res.out.layout = "LND"
        /\ last.res.out.shape = <<1 + cfg.group_num, CallBatch, CallChannels>>
        /\ Len(last.res.mid.attns) = 1
        /\ AttnShape(last.res.mid.attns[1].hard_attn) = <<CallBatch, cfg.group_num, CallLen>>
        /\ AttnShape(last.res.mid.attns[1].soft_attn) = <<CallBatch, cfg.group_num, CallLen>>

C4_MaskFailsFast ==
    last.called =>
        /\ last.attn_mask # None =>
              /\ last.res.status = NotImplemented
              /\ last.res.stages = <<>>
              /\ last.res.calls = <<>>
              /\ last.res.out = NoValue
              /\ last.res.mid = NoValue
        /\ last.attn_mask = None => last.res.status # NotImplemented

C4_Witness ==
    /\ last.called /\ last.attn_mask # None
    /\ last.res.status = NotImplemented

\* C5: in inference mode with hard = TRUE, for every batch index and patch
\* position the routing map along the token axis is one-hot, its single 1 on
\* the lowest-index token among those with the maximal score.
IsFirstMax(col, n) ==
    /\ \A j \in 1..Len(col) : col[j] <= col[n]
    /\ \A j \in 1..(n - 1) : col[j] < col[n]

C5_OneHotFirstMax ==
    (gs.done /\ ~gs.is_training /\ gs.hard) =>
        \A b \in 1..Len(gs.logits) : \A l \in 1..Len(gs.logits[b][1]) :
            \A n \in 1..Len(gs.logits[b]) :
                gs.ret[b][n][l] =
                    IF IsFirstMax([t \in 1..Len(gs.logits[b]) |-> gs.logits[b][t][l]], n)
                    THEN <<1, 1>> ELSE <<0, 1>>

C5_Witness ==
    /\ gs.done /\ ~gs.is_training /\ gs.hard
    /\ Len(gs.logits[1]) = 2 /\ Len(gs.logits[1][1]) = 2
    /\ gs.logits[1][1][1] = gs.logits[1][2][1]
    /\ gs.ret[1][1][1] = <<1, 1>>
    /\ gs.ret[1][2][1] = <<0, 1>>
    /\ gs.logits[1][1][2] < gs.logits[1][2][2]
    /\ gs.ret[1][1][2] = <<0, 1>>
    /\ gs.ret[1][2][2] = <<1, 1>>

\* C6 as stated: forward(inputs (B, Len, C), attn (B, N, Len)) on a layer
\* with out_channels = Len returns shape (B, Len, C).
C6_PatchInputs ==
    (/\ rc.done
     /\ rc.inputs[1] = rc.attn[1]
     /\ rc.inputs[2] = rc.attn[3]
     /\ rc.out_channels = rc.attn[3]) =>
        rc.ret = <<rc.inputs[1], rc.attn[3], rc.inputs[3]>>

\* C6 amended: forward(inputs (B, N, C), attn (B, N, Len)), inputs being the
\* grouped tokens, on a layer with in_channels = N (out_channels is never
\* read) returns shape (B, Len, C).
C6_GroupedInputs ==
    (/\ rc.done
     /\ rc.inputs[1] = rc.attn[1]
     /\ rc.inputs[2] = rc.attn[2]
     /\ rc.in_channels = rc.attn[2]) =>
        rc.ret = <<rc.inputs[1], rc.attn[3], rc.inputs[3]>>

C6_Witness ==
    /\ rc.done
    /\ rc.inputs[1] = rc.attn[1] /\ rc.inputs[2] = rc.attn[2]
    /\ rc.in_channels = rc.attn[2]
    /\ rc.attn[3] # rc.attn[2] /\ rc.attn[2] > 1 /\ rc.attn[3] > 1
    /\ rc.out_channels # rc.attn[3]
    /\ rc.ret = <<rc.inputs[1], rc.attn[3], rc.inputs[3]>>

\* C7: every CrossAttentionBlock.forward call of a refinement round hands
\* the attention primitive a query and a key/value in the same layout, with
\* equal batch size on the same axis, and returns normally.
C7_SameLayout ==
    Unmasked =>
        \A i \in 1..Len(last.res.calls) :
            /\ last.res.calls[i].query.layout = last.res.calls[i].key.layout
            /\ last.res.calls[i].query.shape[2] = last.res.calls[i].key.shape[2]
            /\ last.res.calls[i].result = "ok"

\* C8: for every (batch, token) pair the divisor applied to the aggregated
\* value is max(number of patch positions assigned to the token, 1).
Assigned(hard_attn, b, n) ==
    Cardinality({l \in 1..Len(hard_attn[b][n]) : hard_attn[b][n][l] = <<1, 1>>})

C8_DivisorFloor ==
    (last.called /\ last.res.sem # NoValue) =>
        \A b \in 1..Len(last.res.sem.hard_attn) :
            \A n \in 1..Len(last.res.sem.hard_attn[b]) :
                LET cnt == Assigned(last.res.sem.hard_attn, b, n)
                IN /\ last.res.sem.divisor[b][n] = <<IF cnt >= 1 THEN cnt ELSE 1, 1>>
                   /\ ~RatLess(last.res.sem.divisor[b][n], <<1, 1>>)

C8_Witness ==
    /\ last.called /\ last.res.sem # NoValue
    /\ \E b \in 1..Len(last.res.sem.hard_attn) :
          \E n, m \in 1..Len(last.res.sem.hard_attn[b]) :
              /\ Assigned(last.res.sem.hard_attn, b, n) = 0
              /\ last.res.sem.divisor[b][n] = <<1, 1>>
              /\ Assigned(last.res.sem.hard_attn, b, m) >= 2

\* C9: in inference mode forward draws no random sample, and two
\* consecutive inference calls with the same input and parameters take the
\* same branch and return the same sequence and mid-state record.
C9_InferenceDeterministic ==
    /\ [](last.called /\ ~last.training => last.res.sampled = {})
    /\ [][(/\ last.called /\ last'.called
           /\ ~last.training /\ ~last'.training
           /\ last'.x = last.x /\ last'.attn_mask = last.attn_mask
           /\ semantic_center' = semantic_center)
          => (/\ last'.res.branch = last.res.branch
              /\ last'.res.status = last.res.status
              /\ last'.res.out = last.res.out
              /\ last'.res.mid = last.res.mid)]_vars

C9_Witness ==
    /\ last.called /\ ~last.training /\ last.attn_mask = None
    /\ last.res.status = "ok"
    /\ last.gumbels # ZeroNoise(CallBatch, cfg.group_num, CallLen)
    /\ last.res.sampled = {}

\* C10: after any sequence of forward calls the semantic center bank has
\* the value it had before the first call.
C10_ParametersKept == semantic_center = center0

C10_Witness ==
    /\ last.called /\ last.res.sem # NoValue
    /\ last.res.sem.q_feat.data[1] # semantic_center
    /\ semantic_center = center0

\* C11: the summary token of the input never influences the result: two
\* consecutive inference-mode calls whose inputs differ only at sequence
\* position 0 return the same output sequence and the same mid-state record.
SamePatches(xa, xb) ==
    /\ xa.shape = xb.shape
    /\ \A l \in 2..xa.shape[1] : xa.data[l] = xb.data[l]

C11_SummaryTokenIgnored ==
    [][(/\ last.called /\ last'.called
        /\ ~last.training /\ ~last'.training
        /\ last'.attn_mask = last.attn_mask
        /\ SamePatches(last.x, last'.x)
        /\ semantic_center' = semantic_center)
       => (/\ last'.res.branch = last.res.branch
           /\ last'.res.status = last.res.status
           /\ last'.res.out = last.res.out
           /\ last'.res.mid = last.res.mid)]_vars

C11_Witness ==
    /\ last.called /\ ~last.training /\ last.attn_mask = None
    /\ last.res.status = "ok"
    /\ CallLen >= 2
    /\ \A b \in 1..CallBatch : last.x.data[1][b] = 1
    /\ \E b \in 1..CallBatch : last.res.out.data[1][b] # 1
    /\ last.res.out =
          ForwardResults[<<cfg, build, FALSE, CallBatch, CallLen, <<0, 0, None, 0>>>>].out
    /\ last.x # MakeInput(CallBatch, CallLen, CallChannels, 0, 0)

====
